---- MODULE Spec2Model ----
(***************************************************************************)
(* Model of ntex/src/server/service.rs: the ServerMessage protocol, the    *)
(* StreamService adapter (poll_ready / call) and the Factory that builds,  *)
(* tags and clones per-listener services.                                  *)
(***************************************************************************)
EXTENDS Naturals, Sequences, FiniteSets

VARIABLES
    factories,  \* Factory<F> instances: [name, tag, token, parent]
    builds,     \* futures returned by Factory::create
    services,   \* StreamService instances built so far
    calls,      \* futures returned by StreamService::call
    trace       \* what the adapter has emitted, in order: streams handed to
                \* the handler and conversion errors written to the log

vars == <<factories, builds, services, calls, trace>>

\* ---------------------------------------------------------------- bounds
MaxFactories == 2
MaxBuilds == 2
MaxCalls == 2

\* ---------------------------------------------------------------- inputs
Names == {"web", "api"}
Tokens == {0, 1}
PoolIds == {"P0", "P1"}
Tags == {"a", "b"}
MillisValues == {0, 5000}
HandlerPolls == {"ready", "pending", "error"}
PoolPolls == {"ready", "pending"}
HandlerOutcomes == {"ok", "err"}

\* Config::default().get_pool_id(): the pool identity of a fresh configuration
DefaultPoolId == "P0"

\* ServerMessage
Connect(convertible) == [kind |-> "Connect", convertible |-> convertible]
Shutdown(millis) == [kind |-> "Shutdown", millis |-> millis]
ForceShutdown == [kind |-> "ForceShutdown"]

ServerMessage ==
    {Connect(c) : c \in BOOLEAN} \cup {Shutdown(m) : m \in MillisValues}
        \cup {ForceShutdown}

NoPoll == [handler |-> "none", pool |-> "none", result |-> "none"]

\* ----------------------------------------------------------------- Factory

\* Factory::create(name, token, inner, addr, tag)
NewFactory(name, token, tag) ==
    [name |-> name, tag |-> tag, token |-> token, parent |-> 0]

\* InternalServiceFactory::name for Factory<F>: the token is ignored
name(fac, token) == fac.name

\* Faulty variant of set_tag: the tag is shared by an instance and its clones
set_tag_shared(facs, f, token, tag) ==
    [g \in DOMAIN facs |->
        IF g = f \/ facs[g].parent = f \/ facs[f].parent = g
        THEN [facs[g] EXCEPT !.tag = tag] ELSE facs[g]]

\* InternalServiceFactory::set_tag for Factory<F>: self.tag = tag, on this
\* instance only; the token is ignored
set_tag(facs, f, token, tag) == [facs EXCEPT ![f].tag = tag]

\* InternalServiceFactory::clone_factory for Factory<F>: every field is copied
\* into a new instance (parent records the instance it was cloned from)
clone_factory(facs, f) ==
    [name |-> facs[f].name, tag |-> facs[f].tag,
     token |-> facs[f].token, parent |-> f]

\* StreamService::new(service, tag, pid); polled is the latest readiness query
\* (none yet)
StreamService_new(tag, pid, b) ==
    [tag |-> tag, pool |-> pid, pool_ref |-> pid, build |-> b,
     polled |-> NoPoll]

\* Faulty variant of create: the build is given the default token
create_default_token(facs, f) ==
    [fac |-> f, token |-> 0, tag |-> facs[f].tag,
     pool |-> DefaultPoolId, inner |-> "pending",
     result |-> [kind |-> "Pending"]]

\* Factory::create, the part that runs before the returned future is polled:
\* token and tag are copied, the pool id is read from a default Config; inner
\* is the outcome of the user builder's factory.create(()) once it resolves
create(facs, f) ==
    [fac |-> f, token |-> facs[f].token, tag |-> facs[f].tag,
     pool |-> DefaultPoolId, inner |-> "pending",
     result |-> [kind |-> "Pending"]]

\* Faulty variant of create_result: a failed build yields an empty list
create_partial(build, ok, svc) ==
    IF ok THEN [kind |-> "Ok", list |-> << <<build.token, svc>> >>]
    ELSE [kind |-> "Ok", list |-> << >>]

\* Factory::create, the async block: the result once factory.create(()) has
\* resolved; svc identifies the StreamService built on success
create_result(build, ok, svc) ==
    IF ok THEN [kind |-> "Ok", list |-> << <<build.token, svc>> >>]
    ELSE [kind |-> "Err"]

\* Faulty variant of built_service: the tag is read from the factory when the
\* build completes, not taken from what create() copied
built_service_late_tag(facs, build, b) ==
    StreamService_new(facs[build.fac].tag, build.pool, b)

\* Factory::create, the Ok arm: StreamService::new(inner, tag, pool) with the
\* tag and pool id the async block captured when create() was called
built_service(facs, build, b) == StreamService_new(build.tag, build.pool, b)

\* impl InternalServiceFactory for Box<dyn InternalServiceFactory>: the runtime
\* holds every factory boxed (Factory::create returns the box), and each of the
\* four operations forwards to the factory inside
Box_name(fac, token) == name(fac, token)

\* Faulty variant of Box_set_tag: the box does not forward the call
Box_set_tag_dropped(facs, f, token, tag) == facs

Box_set_tag(facs, f, token, tag) == set_tag(facs, f, token, tag)

Box_clone_factory(facs, f) == clone_factory(facs, f)

Box_create(facs, f) == create(facs, f)

\* ----------------------------------------------------------- StreamService

\* Faulty variant of poll_ready: a ready result is remembered across queries
poll_ready_sticky(self, h, p) ==
    IF h = "error"
    THEN [handler |-> h, pool |-> "none", result |-> "err"]
    ELSE [handler |-> h, pool |-> p,
          result |-> IF (h = "ready" /\ p = "ready") \/ self.polled.result = "ready"
                     THEN "ready" ELSE "pending"]

\* Faulty variant of poll_ready: `ready && pool.poll_ready()`, which skips the
\* pool once the handler is known to be pending
poll_ready_shortcut(self, h, p) ==
    IF h = "error"
    THEN [handler |-> h, pool |-> "none", result |-> "err"]
    ELSE IF h = "ready"
         THEN [handler |-> h, pool |-> p,
               result |-> IF p = "ready" THEN "ready" ELSE "pending"]
         ELSE [handler |-> h, pool |-> "none", result |-> "pending"]

\* Faulty variant of poll_ready: once a query has reported an error, every
\* later query reports it too (the service is given up)
poll_ready_poisoned(self, h, p) ==
    IF h = "error" \/ self.polled.result = "err"
    THEN [handler |-> h, pool |-> "none", result |-> "err"]
    ELSE [handler |-> h, pool |-> p,
          result |-> IF h = "ready" /\ p = "ready" THEN "ready" ELSE "pending"]

\* StreamService::poll_ready, given what the handler (h) and the pool (p) report
\* when polled at this query; the record keeps what each one reported, "none"
\* for one that was not polled, and the combined result
poll_ready(self, h, p) ==
    IF h = "error"
    THEN \* `?` returns Poll::Ready(Err(())) before the pool is polled
         [handler |-> h, pool |-> "none", result |-> "err"]
    ELSE LET ready1 == (h = "ready")
             ready2 == (p = "ready") /\ ready1
         IN  [handler |-> h, pool |-> p,
              result |-> IF ready2 THEN "ready" ELSE "pending"]

\* drop(guard) of an Option<CounterGuard> the future still owns
drop_guard(c) ==
    IF c.held THEN [c EXCEPT !.held = FALSE, !.releases = c.releases + 1]
    ELSE c

\* Faulty variant of resolve: a guard the future still owns is never dropped
resolve_leak(c, r) == [c EXCEPT !.pc = "done", !.result = r]

\* The async block of StreamService::call completes with result r: whatever it
\* still owns (the guard, unless drop(guard) already ran) is dropped with it
resolve(c, r) == [drop_guard(c) EXCEPT !.pc = "done", !.result = r]

\* StreamService::call: the future handed back to the caller, not yet polled
new_call(s, guard, req) ==
    [svc |-> s, req |-> req, guard |-> guard, held |-> guard, releases |-> 0,
     pc |-> "created", result |-> "none", tag |-> "none",
     pool_ref |-> "none", dispatched |-> 0, handler |-> "none",
     logged |-> FALSE, readyAtDispatch |-> FALSE, errAtDispatch |-> FALSE]

\* Faulty variant of call_poll: drop(guard) runs before the handler is awaited
call_poll_early_drop(c, self) ==
    IF c.req.kind = "Connect"
    THEN IF c.req.convertible
         THEN [drop_guard(c) EXCEPT !.tag = self.tag,
                         !.pool_ref = self.pool_ref,
                         !.dispatched = c.dispatched + 1,
                         !.handler = "running",
                         !.readyAtDispatch = (self.polled.result = "ready"),
                        !.errAtDispatch = (self.polled.result = "err"),
                         !.pc = "awaiting"]
         ELSE resolve([c EXCEPT !.logged = TRUE], "Err")
    ELSE resolve(c, "Ok")

\* Faulty variant of call_poll: the conversion result is not checked
call_poll_no_convert_check(c, self) ==
    IF c.req.kind = "Connect"
    THEN [c EXCEPT !.tag = self.tag,
                   !.pool_ref = self.pool_ref,
                   !.dispatched = c.dispatched + 1,
                   !.handler = "running",
                   !.readyAtDispatch = (self.polled.result = "ready"),
                        !.errAtDispatch = (self.polled.result = "err"),
                   !.pc = "awaiting"]
    ELSE resolve(c, "Ok")

\* Variant of call_poll that refuses a Connect unless the latest readiness
\* query reported ready
call_poll_gated(c, self) ==
    IF c.req.kind = "Connect"
    THEN IF c.req.convertible /\ self.polled.result = "ready"
         THEN [c EXCEPT !.tag = self.tag,
                        !.pool_ref = self.pool_ref,
                        !.dispatched = c.dispatched + 1,
                        !.handler = "running",
                        !.readyAtDispatch = (self.polled.result = "ready"),
                        !.errAtDispatch = (self.polled.result = "err"),
                        !.pc = "awaiting"]
         ELSE resolve([c EXCEPT !.logged = TRUE], "Err")
    ELSE resolve(c, "Ok")

\* Variant of call_poll that hands Shutdown and ForceShutdown to the handler
call_poll_forward_shutdown(c, self) ==
    IF c.req.kind = "Connect" /\ ~c.req.convertible
    THEN resolve([c EXCEPT !.logged = TRUE], "Err")
    ELSE [c EXCEPT !.tag = self.tag,
                   !.pool_ref = self.pool_ref,
                   !.dispatched = c.dispatched + 1,
                   !.handler = "running",
                   !.readyAtDispatch = (self.polled.result = "ready"),
                        !.errAtDispatch = (self.polled.result = "err"),
                   !.pc = "awaiting"]

\* Faulty variant of call_poll: after one conversion failure the adapter
\* refuses every later Connect
call_poll_fail_after_error(c, self) ==
    IF c.req.kind = "Connect"
    THEN IF c.req.convertible /\ ~(\E i \in DOMAIN trace : trace[i].ev = "error")
         THEN [c EXCEPT !.tag = self.tag,
                        !.pool_ref = self.pool_ref,
                        !.dispatched = c.dispatched + 1,
                        !.handler = "running",
                        !.readyAtDispatch = (self.polled.result = "ready"),
                        !.errAtDispatch = (self.polled.result = "err"),
                        !.pc = "awaiting"]
         ELSE resolve([c EXCEPT !.logged = TRUE], "Err")
    ELSE resolve(c, "Ok")

\* Faulty variant of call_poll: the pool is not attached to the stream
call_poll_skip_pool(c, self) ==
    IF c.req.kind = "Connect"
    THEN IF c.req.convertible
         THEN [c EXCEPT !.tag = self.tag,
                        !.dispatched = c.dispatched + 1,
                        !.handler = "running",
                        !.readyAtDispatch = (self.polled.result = "ready"),
                        !.errAtDispatch = (self.polled.result = "err"),
                        !.pc = "awaiting"]
         ELSE resolve([c EXCEPT !.logged = TRUE], "Err")
    ELSE resolve(c, "Ok")

\* Faulty variant of call_poll: the stream is handed to the handler twice
call_poll_double(c, self) ==
    IF c.req.kind = "Connect"
    THEN IF c.req.convertible
         THEN [c EXCEPT !.tag = self.tag,
                        !.pool_ref = self.pool_ref,
                        !.dispatched = c.dispatched + 2,
                        !.handler = "running",
                        !.readyAtDispatch = (self.polled.result = "ready"),
                        !.errAtDispatch = (self.polled.result = "err"),
                        !.pc = "awaiting"]
         ELSE resolve([c EXCEPT !.logged = TRUE], "Err")
    ELSE resolve(c, "Ok")

\* StreamService::call, first poll of the future: match req; for Connect,
\* convert the stream and, if that succeeds, tag it, attach the pool and
\* dispatch it to the handler, which is then awaited (readyAtDispatch records
\* whether the latest readiness query had reported ready, errAtDispatch
\* whether it had reported an error); a failed conversion
\* is logged and resolves Err; any other message resolves Ok
call_poll(c, self) ==
    IF c.req.kind = "Connect"
    THEN IF c.req.convertible
         THEN [c EXCEPT !.tag = self.tag,
                        !.pool_ref = self.pool_ref,
                        !.dispatched = c.dispatched + 1,
                        !.handler = "running",
                        !.readyAtDispatch = (self.polled.result = "ready"),
                        !.errAtDispatch = (self.polled.result = "err"),
                        !.pc = "awaiting"]
         ELSE resolve([c EXCEPT !.logged = TRUE], "Err")
    ELSE resolve(c, "Ok")

\* Faulty variant of call_resume: the handler's error is passed to the caller
call_resume_propagate(c, outcome) ==
    resolve(drop_guard([c EXCEPT !.handler = outcome]),
            IF outcome = "ok" THEN "Ok" ELSE "Err")

\* StreamService::call, resumption after ctx.call(..).await: the handler's
\* outcome is discarded, the guard is dropped and the call resolves Ok
call_resume(c, outcome) ==
    resolve(drop_guard([c EXCEPT !.handler = outcome]), "Ok")

\* Faulty variant of abandon: the guard goes down with the future unreleased
abandon_leak(c) ==
    [c EXCEPT !.pc = "dropped",
              !.handler = IF c.handler = "running" THEN "cancelled" ELSE c.handler]

\* The caller drops the future StreamService::call returned before it has
\* resolved: the async block's state is dropped, that is the guard it owns and,
\* if it is awaiting the handler, the handler's future (the dispatch is
\* cancelled, not completed)
abandon(c) ==
    [drop_guard(c) EXCEPT
        !.pc = "dropped",
        !.handler = IF c.handler = "running" THEN "cancelled" ELSE c.handler]

\* What one poll of call c emits, from the call before (old) and after (new)
\* it: one entry per stream handed to the handler through ctx.call, one per
\* error! line written
emitted(c, old, new) ==
    (IF new.dispatched > old.dispatched
     THEN [i \in 1..(new.dispatched - old.dispatched) |->
              [ev |-> "dispatch", call |-> c]]
     ELSE << >>)
    \o (IF new.logged /\ ~old.logged
        THEN << [ev |-> "error", call |-> c] >> ELSE << >>)

\* ----------------------------------------------------------------- actions

SetTag(f, token, tag) ==
    /\ f \in DOMAIN factories
    /\ factories' = Box_set_tag(factories, f, token, tag)
    /\ UNCHANGED <<builds, services, calls, trace>>

CloneFactory(f) ==
    /\ f \in DOMAIN factories
    /\ Len(factories) < MaxFactories
    /\ factories' = Append(factories, Box_clone_factory(factories, f))
    /\ UNCHANGED <<builds, services, calls, trace>>

Create(f) ==
    /\ f \in DOMAIN factories
    /\ Len(builds) < MaxBuilds
    /\ builds' = Append(builds, Box_create(factories, f))
    /\ UNCHANGED <<factories, services, calls, trace>>

BuildComplete(b, ok) ==
    /\ b \in DOMAIN builds
    /\ builds[b].result.kind = "Pending"
    /\ builds' = [builds EXCEPT
                    ![b].inner = IF ok THEN "ok" ELSE "err",
                    ![b].result = create_result(builds[b], ok, Len(services) + 1)]
    /\ services' = IF ok
                   THEN Append(services, built_service(factories, builds[b], b))
                   ELSE services
    /\ UNCHANGED <<factories, calls, trace>>

PollReady(s, h, p) ==
    /\ s \in DOMAIN services
    /\ services' = [services EXCEPT ![s].polled = poll_ready(services[s], h, p)]
    /\ UNCHANGED <<factories, builds, calls, trace>>

Call(s, guard, req) ==
    /\ s \in DOMAIN services
    /\ Len(calls) < MaxCalls
    /\ calls' = Append(calls, new_call(s, guard, req))
    /\ UNCHANGED <<factories, builds, services, trace>>

CallPoll(c) ==
    /\ c \in DOMAIN calls
    /\ calls[c].pc = "created"
    /\ calls' = [calls EXCEPT ![c] = call_poll(calls[c], services[calls[c].svc])]
    /\ trace' = trace \o emitted(c, calls[c], calls'[c])
    /\ UNCHANGED <<factories, builds, services>>

HandlerComplete(c, outcome) ==
    /\ c \in DOMAIN calls
    /\ calls[c].pc = "awaiting"
    /\ calls' = [calls EXCEPT ![c] = call_resume(calls[c], outcome)]
    /\ UNCHANGED <<factories, builds, services, trace>>

Abandon(c) ==
    /\ c \in DOMAIN calls
    /\ calls[c].pc \in {"created", "awaiting"}
    /\ calls' = [calls EXCEPT ![c] = abandon(calls[c])]
    /\ UNCHANGED <<factories, builds, services, trace>>

\* ---------------------------------------------------- the factory on its own
\* One Factory as Factory::create(name, token, inner, addr, tag) leaves it;
\* the runtime clones it, tags the instances and builds services from them.

InitFactory ==
    /\ \E n \in Names, token \in Tokens, tag \in Tags :
          factories = << NewFactory(n, token, tag) >>
    /\ builds = << >>
    /\ services = << >>
    /\ calls = << >>
    /\ trace = << >>

NextFactory ==
    \/ \E f \in 1..MaxFactories, token \in Tokens, tag \in Tags : SetTag(f, token, tag)
    \/ \E f \in 1..MaxFactories : CloneFactory(f)
    \/ \E f \in 1..MaxFactories : Create(f)
    \/ \E b \in 1..MaxBuilds, ok \in BOOLEAN : BuildComplete(b, ok)

SpecFactory == InitFactory /\ [][NextFactory]_vars

\* ---------------------------------------------------- the adapter on its own
\* One StreamService as StreamService::new(service, tag, pid) leaves it; the
\* caller queries its readiness and delivers messages, the handler completes.

Init ==
    /\ factories = << >>
    /\ builds = << >>
    /\ \E tag \in Tags, pid \in PoolIds :
          services = << StreamService_new(tag, pid, 0) >>
    /\ calls = << >>
    /\ trace = << >>

Next ==
    \/ \E h \in HandlerPolls, p \in PoolPolls : PollReady(1, h, p)
    \/ \E guard \in BOOLEAN, req \in ServerMessage : Call(1, guard, req)
    \/ \E c \in 1..MaxCalls : CallPoll(c)
    \/ \E c \in 1..MaxCalls, outcome \in HandlerOutcomes : HandlerComplete(c, outcome)

Spec == Init /\ [][Next]_vars

\* The adapter with a caller that may also drop a call's future at either of
\* its suspension points (not yet polled, or awaiting the handler); call reads
\* nothing a readiness query writes, so the queries are left out here
NextAbandon ==
    \/ \E guard \in BOOLEAN, req \in ServerMessage : Call(1, guard, req)
    \/ \E c \in 1..MaxCalls : CallPoll(c)
    \/ \E c \in 1..MaxCalls, outcome \in HandlerOutcomes : HandlerComplete(c, outcome)
    \/ \E c \in 1..MaxCalls : Abandon(c)

SpecAbandon == Init /\ [][NextAbandon]_vars

\* ------------------------------------------------------------------ claims

IsConnect(c) == calls[c].req.kind = "Connect"
Converts(c) == IsConnect(c) /\ calls[c].req.convertible
FailsConversion(c) == IsConnect(c) /\ ~calls[c].req.convertible
IsShutdown(c) == calls[c].req.kind \in {"Shutdown", "ForceShutdown"}
HandlerFinished(c) == calls[c].handler \in HandlerOutcomes

\* C1: a guard passed with a Connect whose stream converts is released exactly
\* once, and never before the handler's dispatch for that stream has completed
\* (with success or with failure).
C1_GuardReleasedOnceAfterDispatch ==
    \A c \in DOMAIN calls :
        (Converts(c) /\ calls[c].guard) =>
            /\ calls[c].releases <= 1
            /\ calls[c].releases = 1 => HandlerFinished(c)
            /\ calls[c].pc = "done" => (calls[c].releases = 1 /\ ~calls[c].held)
            /\ calls[c].pc # "done" => (calls[c].releases = 0 /\ calls[c].held)

C1_Witness ==
    \E c, d \in DOMAIN calls :
        /\ Converts(c) /\ calls[c].guard /\ calls[c].handler = "err"
        /\ calls[c].pc = "done" /\ calls[c].releases = 1
        /\ Converts(d) /\ calls[d].guard /\ calls[d].handler = "ok"
        /\ calls[d].pc = "done" /\ calls[d].releases = 1

\* C2: a readiness query reports ready exactly when both the handler and the
\* pool report ready at that query; if either reports pending at a query, that
\* query's result is Pending, whatever earlier queries returned.
C2_ReadyIffBothReady ==
    \A s \in DOMAIN services :
        LET q == services[s].polled IN
        q # NoPoll =>
            /\ q.result = "ready" <=> (q.handler = "ready" /\ q.pool = "ready")
            /\ (q.handler = "pending" \/ q.pool = "pending") => q.result = "pending"

C2_Witness ==
    \E s \in DOMAIN services :
        /\ services[s].polled.handler = "ready"
        /\ services[s].polled.pool = "pending"
        /\ services[s].polled.result = "pending"

\* C3 (as stated): every readiness query polls both the handler and the pool,
\* for every handler outcome (ready, pending, error) and pool outcome.
C3_BothAlwaysPolled ==
    \A s \in DOMAIN services :
        services[s].polled # NoPoll =>
            (services[s].polled.handler # "none" /\ services[s].polled.pool # "none")

\* C3 (amended): every readiness query polls the handler; the pool is polled
\* too whenever the handler reports ready or pending, and is not polled when
\* the handler reports an error (the query returns the error at once).
C3_PoolPolledUnlessHandlerError ==
    \A s \in DOMAIN services :
        LET q == services[s].polled IN
        q # NoPoll =>
            /\ q.handler \in HandlerPolls
            /\ q.handler \in {"ready", "pending"} => q.pool \in PoolPolls
            /\ q.handler = "error" => (q.pool = "none" /\ q.result = "err")

C3_Witness ==
    \E s \in DOMAIN services :
        /\ services[s].polled.handler = "pending"
        /\ services[s].polled.pool = "ready"
        /\ services[s].polled.result = "pending"

\* C4: a Connect whose stream fails conversion resolves with Err and causes no
\* handler dispatch, no tag attachment and no pool attachment.
C4_ConversionFailureNoDispatch ==
    \A c \in DOMAIN calls :
        FailsConversion(c) =>
            /\ calls[c].dispatched = 0 /\ calls[c].handler = "none"
            /\ calls[c].tag = "none" /\ calls[c].pool_ref = "none"
            /\ calls[c].pc \in {"created", "done"}
            /\ calls[c].pc = "done" => calls[c].result = "Err"

C4_Witness ==
    \E c \in DOMAIN calls :
        /\ FailsConversion(c) /\ calls[c].pc = "done"
        /\ calls[c].result = "Err" /\ calls[c].logged

\* C5: the guard passed with a Connect whose stream fails conversion is
\* released exactly once by the time the call has resolved with failure.
C5_GuardReleasedOnConversionFailure ==
    \A c \in DOMAIN calls :
        (FailsConversion(c) /\ calls[c].guard) =>
            /\ calls[c].releases <= 1
            /\ (calls[c].pc = "done" /\ calls[c].result = "Err") =>
                   (calls[c].releases = 1 /\ ~calls[c].held)

C5_Witness ==
    \E c \in DOMAIN calls :
        /\ FailsConversion(c) /\ calls[c].guard
        /\ calls[c].result = "Err" /\ calls[c].releases = 1

\* C6 (as stated): a handler dispatch begins only when the service's combined
\* readiness is ready (handler ready and pool ready).
C6_DispatchOnlyWhenReady ==
    \A c \in DOMAIN calls :
        calls[c].dispatched > 0 => calls[c].readyAtDispatch

\* C6 (amended): call makes no readiness check of its own; a handler dispatch
\* begins exactly when a Connect with a convertible stream is polled, once per
\* such message, whatever the latest readiness query reported.
C6_DispatchIffConvertibleConnect ==
    \A c \in DOMAIN calls :
        /\ calls[c].dispatched <= 1
        /\ calls[c].dispatched = 1 <=> (Converts(c) /\ calls[c].pc # "created")

C6_Witness ==
    \E c \in DOMAIN calls :
        /\ calls[c].dispatched = 1 /\ ~calls[c].readyAtDispatch
        /\ calls[c].handler = "running"
        /\ services[calls[c].svc].polled.result = "pending"

\* C7: tag mutations are local to the factory instance they are applied to: a
\* set_tag changes the tag of one instance only (clone or original), and a
\* service built by create() carries the tag of the instance it was built from.
C7_SetTagLocal ==
    [][ /\ \A f, g \in DOMAIN factories :
              (f # g /\ factories'[f].tag # factories[f].tag) =>
                  factories'[g].tag = factories[g].tag
        /\ Len(builds') > Len(builds) =>
              builds'[Len(builds')].tag = factories[builds'[Len(builds')].fac].tag
        /\ Len(services') > Len(services) =>
              services'[Len(services')].tag =
                  builds[services'[Len(services')].build].tag
      ]_vars

C7_Witness ==
    \E f, g \in DOMAIN factories, s, r \in DOMAIN services :
        /\ factories[g].parent = f
        /\ factories[g].tag # factories[f].tag
        /\ builds[services[s].build].fac = f
        /\ services[s].tag = factories[f].tag
        /\ builds[services[r].build].fac = g
        /\ services[r].tag = factories[g].tag

\* C8: when the user builder's construction step fails, create() resolves to
\* Err, with no (Token, service) list at all, and no StreamService is built.
C8_BuildFailureNoList ==
    \A b \in DOMAIN builds :
        builds[b].inner = "err" =>
            /\ builds[b].result.kind = "Err"
            /\ "list" \notin DOMAIN builds[b].result
            /\ \A s \in DOMAIN services : services[s].build # b

C8_Witness ==
    \E b, d \in DOMAIN builds :
        /\ builds[b].inner = "err" /\ builds[b].result.kind = "Err"
        /\ builds[d].inner = "ok" /\ builds[d].result.kind = "Ok"

\* C9: a Connect whose stream converts resolves with Ok once the handler's
\* dispatch completes, whether the handler returned success or an error, and
\* does not resolve before that.
C9_HandlerOutcomeDiscarded ==
    \A c \in DOMAIN calls :
        Converts(c) =>
            /\ HandlerFinished(c) => (calls[c].pc = "done" /\ calls[c].result = "Ok")
            /\ ~HandlerFinished(c) => calls[c].result = "none"

C9_Witness ==
    \E c \in DOMAIN calls :
        /\ Converts(c) /\ calls[c].handler = "err"
        /\ calls[c].pc = "done" /\ calls[c].result = "Ok"

\* C10: a Shutdown(millis) or ForceShutdown message resolves with Ok without
\* any handler dispatch, tag attachment or pool attachment, and leaves the
\* adapter's tag, pool handle and pool reference unchanged.
C10_ShutdownInert ==
    [][ \A c \in DOMAIN calls :
          (IsShutdown(c) /\ calls[c].pc = "created" /\ calls'[c] # calls[c]) =>
              /\ calls'[c].pc = "done" /\ calls'[c].result = "Ok"
              /\ calls'[c].dispatched = 0 /\ calls'[c].handler = "none"
              /\ calls'[c].tag = "none" /\ calls'[c].pool_ref = "none"
              /\ services'[calls[c].svc].tag = services[calls[c].svc].tag
              /\ services'[calls[c].svc].pool = services[calls[c].svc].pool
              /\ services'[calls[c].svc].pool_ref = services[calls[c].svc].pool_ref
      ]_vars

C10_Witness ==
    \E c, d \in DOMAIN calls :
        /\ calls[c].req = Shutdown(5000) /\ calls[c].pc = "done"
        /\ calls[c].result = "Ok"
        /\ calls[d].req = ForceShutdown /\ calls[d].pc = "done"
        /\ calls[d].result = "Ok"

\* C11: a handler error during a readiness query is reported as Ready(Err(()))
\* (and an error is reported only then); it does not end the service: queries
\* are answered afresh afterwards and a Connect polled afterwards is dispatched.
C11_ReadinessErrorNotFatal ==
    /\ \A s \in DOMAIN services :
          LET q == services[s].polled IN
          q # NoPoll =>
              /\ q.result = "err" <=> q.handler = "error"
              /\ q.handler = "error" => q.result \notin {"ready", "pending"}
    /\ \A c \in DOMAIN calls :
          (Converts(c) /\ calls[c].pc # "created") =>
              (calls[c].dispatched = 1 /\ calls[c].result # "Err")

C11_Witness ==
    \E c \in DOMAIN calls :
        /\ Converts(c) /\ calls[c].errAtDispatch /\ calls[c].dispatched = 1
        /\ calls[c].pc = "done" /\ calls[c].result = "Ok"
        /\ services[calls[c].svc].polled.result = "ready"

\* The streams handed to the handler, in the order the handler received them
Dispatches(tr) == SelectSeq(tr, LAMBDA e : e.ev = "dispatch")

PolledNow(c) == calls[c].pc = "created" /\ calls'[c].pc # "created"

\* C12 (as stated): for Connect messages m1 delivered before m2, the handler
\* dispatch of m1's stream begins before that of m2's stream, and each convertible
\* Connect produces exactly one dispatch.
C12_DispatchInDeliveryOrder ==
    LET d == Dispatches(trace) IN
    /\ \A i, j \in DOMAIN d : i < j => d[i].call < d[j].call
    /\ \A c \in DOMAIN calls : calls[c].dispatched <= 1

\* C12 (amended): the adapter keeps no queue: the one dispatch of a convertible
\* Connect begins in the step in which the future call returned for it is first
\* polled, and no other step hands anything to the handler; so dispatches begin
\* in the order the caller polls the futures.
C12_DispatchWhenPolled ==
    [][ /\ \A c \in DOMAIN calls :
              (Converts(c) /\ PolledNow(c)) =>
                  Dispatches(trace') =
                      Append(Dispatches(trace), [ev |-> "dispatch", call |-> c])
        /\ (~ \E c \in DOMAIN calls : Converts(c) /\ PolledNow(c)) =>
              Dispatches(trace') = Dispatches(trace)
      ]_vars

C12_Witness ==
    /\ Len(calls) >= 2 /\ Converts(1) /\ Converts(2)
    /\ Dispatches(trace) = << [ev |-> "dispatch", call |-> 1],
                              [ev |-> "dispatch", call |-> 2] >>

\* C13: when the user builder's construction step succeeds, create() yields a
\* list of exactly one (Token, service) pair, whose token is the one the
\* factory was constructed or cloned with, on the factory and on its clones.
C13_OnePairWithFactoryToken ==
    /\ \A b \in DOMAIN builds :
          builds[b].inner = "ok" =>
              /\ builds[b].result.kind = "Ok"
              /\ Len(builds[b].result.list) = 1
              /\ builds[b].result.list[1][1] = factories[builds[b].fac].token
              /\ builds[b].result.list[1][2] \in DOMAIN services
              /\ services[builds[b].result.list[1][2]].build = b
    /\ \A f \in DOMAIN factories :
          factories[f].parent # 0 =>
              factories[f].token = factories[factories[f].parent].token

C13_Witness ==
    \E b, d \in DOMAIN builds :
        /\ builds[b].inner = "ok" /\ factories[builds[b].fac].parent = 0
        /\ builds[d].inner = "ok" /\ factories[builds[d].fac].parent # 0
        /\ builds[b].result.list = << <<1, builds[b].result.list[1][2]>> >>
        /\ builds[d].result.list = << <<1, builds[d].result.list[1][2]>> >>

\* C14: a Connect whose stream fails conversion changes nothing but its own
\* call: the adapter's tag and pool stay as they were, and a convertible Connect
\* polled after any number of such failures is tagged, pool-attached and
\* dispatched, and resolves Ok when the handler completes.
C14_ConversionFailureIsolated ==
    [][ /\ \A c \in DOMAIN calls :
              (FailsConversion(c) /\ PolledNow(c)) =>
                  /\ services' = services
                  /\ \A d \in DOMAIN calls \ {c} : calls'[d] = calls[d]
        /\ \A c \in DOMAIN calls :
              (Converts(c) /\ PolledNow(c)) =>
                  /\ calls'[c].tag = services[calls[c].svc].tag
                  /\ calls'[c].pool_ref = services[calls[c].svc].pool_ref
                  /\ calls'[c].dispatched = 1 /\ calls'[c].handler = "running"
        /\ \A c \in DOMAIN calls :
              (Converts(c) /\ calls[c].pc = "awaiting" /\ calls'[c].pc = "done") =>
                  calls'[c].result = "Ok"
      ]_vars

C14_Witness ==
    \E i, j \in DOMAIN trace :
        /\ i < j /\ trace[i].ev = "error" /\ trace[j].ev = "dispatch"
        /\ calls[trace[i].call].result = "Err"
        /\ LET d == calls[trace[j].call] IN
               /\ d.pc = "done" /\ d.result = "Ok"
               /\ d.tag = services[d.svc].tag
               /\ d.pool_ref = services[d.svc].pool_ref

\* C15: every stream handed to the handler carries the StreamService's tag and
\* pool reference, and these never change after construction, so all streams
\* dispatched through one service carry the same pool reference.
C15_StreamsCarryServiceTagAndPool ==
    [][ /\ \A s \in DOMAIN services :
              /\ services'[s].tag = services[s].tag
              /\ services'[s].pool = services[s].pool
              /\ services'[s].pool_ref = services[s].pool_ref
        /\ \A c \in DOMAIN calls' :
              calls'[c].dispatched > 0 =>
                  /\ calls'[c].tag = services'[calls'[c].svc].tag
                  /\ calls'[c].pool_ref = services'[calls'[c].svc].pool_ref
        /\ \A c, d \in DOMAIN calls' :
              (calls'[c].dispatched > 0 /\ calls'[d].dispatched > 0
                   /\ calls'[c].svc = calls'[d].svc) =>
                  calls'[c].pool_ref = calls'[d].pool_ref
      ]_vars

C15_Witness ==
    \E c, d \in DOMAIN calls :
        /\ c # d /\ calls[c].svc = calls[d].svc
        /\ calls[c].dispatched = 1 /\ calls[d].dispatched = 1
        /\ calls[c].handler = "running" /\ calls[d].pc = "done"
        /\ calls[c].pool_ref = services[calls[c].svc].pool_ref
        /\ calls[d].pool_ref = calls[c].pool_ref
        /\ calls[c].tag = services[calls[c].svc].tag

\* C16: a service carries the tag its factory held when create() was called:
\* the tag create() copied is not changed by a later set_tag, whether the
\* returned future has resolved or not, nor is the tag of a built service; a
\* set_tag shows only in builds started by later create() calls.
C16_TagFixedAtCreate ==
    [][ /\ \A b \in DOMAIN builds : builds'[b].tag = builds[b].tag
        /\ \A s \in DOMAIN services : services'[s].tag = services[s].tag
        /\ \A b \in DOMAIN builds :
              (builds[b].result.kind = "Pending" /\ builds'[b].result.kind = "Ok") =>
                  services'[builds'[b].result.list[1][2]].tag = builds[b].tag
        /\ \A b \in DOMAIN builds' \ DOMAIN builds :
              builds'[b].tag = factories[builds'[b].fac].tag
      ]_vars

C16_Witness ==
    \E s \in DOMAIN services, b, d \in DOMAIN builds :
        /\ services[s].build = b /\ d > b /\ builds[d].fac = builds[b].fac
        /\ services[s].tag # factories[builds[b].fac].tag
        /\ builds[d].tag = factories[builds[d].fac].tag
        /\ builds[d].result.kind = "Pending"

\* C17: with several calls in flight on one service, the number of guards
\* handed to the adapter and not yet released equals the number of
\* guard-carrying calls not yet resolved, and each call's guard is released by
\* that call's own completion and by nothing else.
C17_GuardsMatchUnresolvedCalls ==
    /\ Cardinality({c \in DOMAIN calls : calls[c].guard /\ calls[c].held})
         = Cardinality({c \in DOMAIN calls : calls[c].guard /\ calls[c].pc # "done"})
    /\ \A c \in DOMAIN calls :
          /\ calls[c].guard =>
                /\ calls[c].held <=> calls[c].pc # "done"
                /\ calls[c].releases = IF calls[c].pc = "done" THEN 1 ELSE 0
          /\ ~calls[c].guard => (~calls[c].held /\ calls[c].releases = 0)

C17_Witness ==
    \E i, j \in DOMAIN trace :
        /\ i < j /\ trace[i].ev = "dispatch" /\ trace[j].ev = "dispatch"
        /\ LET d == calls[trace[i].call]
               c == calls[trace[j].call]
           IN  /\ d.guard /\ d.pc = "awaiting" /\ d.held /\ d.releases = 0
               /\ c.guard /\ c.pc = "done" /\ ~c.held /\ c.releases = 1

\* C18: a guard passed with a Shutdown or ForceShutdown message is released
\* exactly once by the time the call resolves, and is not kept afterwards.
C18_ShutdownGuardReleased ==
    \A c \in DOMAIN calls :
        (IsShutdown(c) /\ calls[c].guard) =>
            /\ calls[c].releases <= 1
            /\ calls[c].pc = "created" => (calls[c].held /\ calls[c].releases = 0)
            /\ calls[c].pc = "done" => (~calls[c].held /\ calls[c].releases = 1)

C18_Witness ==
    \E c, d \in DOMAIN calls :
        /\ calls[c].req.kind = "Shutdown" /\ calls[c].guard
        /\ calls[c].pc = "done" /\ calls[c].releases = 1 /\ ~calls[c].held
        /\ calls[d].req.kind = "ForceShutdown" /\ calls[d].guard
        /\ calls[d].pc = "done" /\ calls[d].releases = 1 /\ ~calls[d].held

\* C19: a call whose future is dropped before it resolved, at either suspension
\* point, has released its guard exactly once; so has every call that resolved
\* (after the handler completed, after a conversion failure, or on a shutdown
\* message); a guard is held only while its call is still in flight.
C19_GuardReleasedOnEveryPath ==
    \A c \in DOMAIN calls :
        calls[c].guard =>
            /\ calls[c].releases <= 1
            /\ calls[c].pc \in {"done", "dropped"} =>
                   (calls[c].releases = 1 /\ ~calls[c].held)
            /\ calls[c].pc \in {"created", "awaiting"} =>
                   (calls[c].releases = 0 /\ calls[c].held)

C19_Witness ==
    \E c, d \in DOMAIN calls :
        /\ Converts(c) /\ calls[c].guard /\ calls[c].pc = "dropped"
        /\ calls[c].handler = "cancelled" /\ calls[c].releases = 1
        /\ Converts(d) /\ calls[d].guard /\ calls[d].pc = "dropped"
        /\ calls[d].handler = "none" /\ calls[d].releases = 1

\* C20: a boxed factory behaves as the factory it wraps: in every state reached
\* by name, set_tag, clone_factory and create through the box, each operation
\* on the box gives the result, and leaves the name/tag/token state, that the
\* same operation gives on the factory inside; name(token) is the name the
\* factory was constructed or cloned with, for every token, and set_tag leaves
\* it unchanged.
C20_BoxForwards ==
    \A f \in DOMAIN factories, token \in Tokens :
        /\ Box_name(factories[f], token) = name(factories[f], token)
        /\ Box_name(factories[f], token) = factories[f].name
        /\ factories[f].parent # 0 =>
               Box_name(factories[f], token)
                   = Box_name(factories[factories[f].parent], token)
        /\ Box_clone_factory(factories, f) = clone_factory(factories, f)
        /\ Box_create(factories, f) = create(factories, f)
        /\ \A tag \in Tags :
               /\ Box_set_tag(factories, f, token, tag)
                      = set_tag(factories, f, token, tag)
               /\ \A g \in DOMAIN factories, t2 \in Tokens :
                      Box_name(Box_set_tag(factories, f, token, tag)[g], t2)
                          = Box_name(factories[g], t2)
               /\ Box_set_tag(factories, f, token, tag)[f].tag = tag

C20_Witness ==
    \E f \in DOMAIN factories, b \in DOMAIN builds :
        /\ factories[f].parent # 0
        /\ factories[f].tag # factories[factories[f].parent].tag
        /\ factories[f].name = factories[factories[f].parent].name
        /\ builds[b].fac = f /\ builds[b].tag = factories[f].tag
        /\ builds[b].result.kind = "Ok"

====
